---- MODULE Spec2Model ----
(***************************************************************************)
(* create_unified_poi_table.py: one run of the script is one transaction   *)
(* (with engine.begin() as conn) that validates the tables of schema       *)
(* berlin_source_data, recreates unified_pois and processed_tables_log,    *)
(* unifies the valid tables, enriches the long_term_listings rows with the *)
(* nearest POI of every other layer, logs the processed tables and builds  *)
(* the spatial index.                                                      *)
(*                                                                         *)
(* Text values that the code takes apart (table names, ids, poi_ids) are   *)
(* sequences of one-character strings.  A nullable SQL value is NULL or    *)
(* the one-element tuple <<v>>.                                            *)
(***************************************************************************)
EXTENDS Integers, Sequences, FiniteSets, Bags, TLC

NULL == <<>>

Min(a, b) == IF a <= b THEN a ELSE b

Abs(x) == IF x < 0 THEN -x ELSE x

\* The bag of the values F(x), one copy for every x of S.
BagOf(S, F(_)) ==
    LET R == {F(x) : x \in S}
    IN  [r \in R |-> Cardinality({x \in S : F(x) = r})]

-----------------------------------------------------------------------------
(* Table names *)

long_term_listings ==
    <<"l","o","n","g","_","t","e","r","m","_","l","i","s","t","i","n","g","s">>

galleries == <<"g","a","l","l","e","r","i","e","s">>

food_markets == <<"f","o","o","d","_","m","a","r","k","e","t","s">>

banks == <<"b","a","n","k","s">>

malls == <<"m","a","l","l","s">>

bike_lanes == <<"b","i","k","e","_","l","a","n","e","s">>

Districts == <<"D","i","s","t","r","i","c","t","s">>

\* The lower-case form of one character (the letters the names here use).
LowerChar(ch) == IF ch = "D" THEN "d" ELSE ch

LowerSeq(s) == [i \in 1..Len(s) |-> LowerChar(s[i])]

\* name ILIKE '%pat%'
ILikeContains(name, pat) ==
    \E i \in 1..(Len(name) - Len(pat) + 1) :
        SubSeq(LowerSeq(name), i, i + Len(pat) - 1) = LowerSeq(pat)

pat_districts == <<"d","i","s","t","r","i","c","t","s">>

pat_neighborhoods == <<"n","e","i","g","h","b","o","r","h","o","o","d","s">>

\* SUBSTRING(s FROM from FOR count)
Substring(s, from, count) == SubSeq(s, from, Min(Len(s), from + count - 1))

\* LOWER(column_name), for the column names the catalogue here holds
Lower(c) == IF c = "ID" THEN "id" ELSE c

-----------------------------------------------------------------------------
(* Three-valued SQL logic: "t", "f" and "u" (unknown, a NULL boolean) *)

Neq3(a, b) == IF a = NULL \/ b = NULL THEN "u" ELSE IF a[1] # b[1] THEN "t" ELSE "f"

Eq3(a, b) == IF a = NULL \/ b = NULL THEN "u" ELSE IF a[1] = b[1] THEN "t" ELSE "f"

And3(p, q) == IF p = "f" \/ q = "f" THEN "f" ELSE IF p = "t" /\ q = "t" THEN "t" ELSE "u"

Or3(p, q) == IF p = "t" \/ q = "t" THEN "t" ELSE IF p = "f" /\ q = "f" THEN "f" ELSE "u"

\* numeric_precision || ',' || numeric_scale : NULL when either part is NULL
PrecisionScale(p, s) == IF p = NULL \/ s = NULL THEN NULL ELSE << <<p[1], s[1]>> >>

-----------------------------------------------------------------------------
(* Step 1: the validation query *)

\* A source table is [columns, constraints, rows]:
\*   columns     : column_name -> [data_type, numeric_precision, numeric_scale, is_nullable]
\*   constraints : a set of [constraint_type, columns]
\*   rows        : a set of [id, geometry]

all_tables(src) ==
    {t \in DOMAIN src : /\ ~ILikeContains(t, pat_districts)
                        /\ ~ILikeContains(t, pat_neighborhoods)}

ExpectedRow(c, ty, k, n) ==
    [column_name |-> c, expected_type |-> <<ty>>, expected_length |-> NULL,
     constraint_type |-> k, is_nullable |-> n]

expected_schema ==
    { ExpectedRow("id", "character varying", <<"PRIMARY KEY">>, "NO"),
      ExpectedRow("district_id", "character varying", <<"FOREIGN KEY">>, "NO"),
      ExpectedRow("name", "character varying", NULL, "YES"),
      ExpectedRow("latitude", "numeric", NULL, "YES"),
      ExpectedRow("longitude", "numeric", NULL, "YES"),
      ExpectedRow("neighborhood", "character varying", NULL, "YES"),
      ExpectedRow("district", "character varying", NULL, "YES"),
      ExpectedRow("neighborhood_id", "character varying", NULL, "YES") }

\* req_cols, in the order STRING_AGG(... ORDER BY col) lists them
req_cols ==
    <<"district", "district_id", "geometry", "id", "latitude", "longitude",
      "name", "neighborhood", "neighborhood_id">>

IsMissing(src, t, col) == ~\E c \in DOMAIN src[t].columns : Lower(c) = col

missing_columns(src) ==
    LET T == {t \in all_tables(src) : \E i \in DOMAIN req_cols : IsMissing(src, t, req_cols[i])}
        Rec(t) == [table_name |-> t,
                   reason |-> <<"Missing columns: ",
                                SelectSeq(req_cols, LAMBDA col : IsMissing(src, t, col))>>]
    IN  BagOf(T, Rec)

\* information_schema.columns JOIN expected_schema ON LOWER(column_name) = e.column_name
ColumnsJoinExpected(src) ==
    {x \in {<<t, c, e>> : t \in DOMAIN src, c \in UNION {DOMAIN src[u].columns : u \in DOMAIN src},
                          e \in expected_schema} :
        /\ x[2] \in DOMAIN src[x[1]].columns
        /\ Lower(x[2]) = x[3].column_name}

DatatypeCondition(col, e) ==
    Or3(Neq3(<<col.data_type>>, e.expected_type),
        And3(Eq3(<<col.data_type>>, <<"numeric">>),
             Neq3(PrecisionScale(col.numeric_precision, col.numeric_scale),
                  e.expected_length)))

datatype_issues(src) ==
    LET S == {x \in ColumnsJoinExpected(src) :
                 DatatypeCondition(src[x[1]].columns[x[2]], x[3]) = "t"}
        Rec(x) == [table_name |-> x[1],
                   reason |-> <<"Expected data type ", x[3].expected_type[1], ", got ",
                                src[x[1]].columns[x[2]].data_type>>]
    IN  BagOf(S, Rec)

null_issues(src) ==
    LET S == {x \in ColumnsJoinExpected(src) :
                 /\ x[3].is_nullable = "NO"
                 /\ src[x[1]].columns[x[2]].is_nullable = "YES"}
        Rec(x) == [table_name |-> x[1],
                   reason |-> <<"Column ", x[2], " allows NULL, expected NOT NULL">>]
    IN  BagOf(S, Rec)

pk_issues(src) ==
    LET T == {t \in all_tables(src) :
                 ~\E k \in src[t].constraints :
                     /\ k.constraint_type = "PRIMARY KEY"
                     /\ \E c \in k.columns : Lower(c) = "id"}
        Rec(t) == [table_name |-> t, reason |-> <<"Missing PRIMARY KEY on id column">>]
    IN  BagOf(T, Rec)

fk_issues(src) ==
    LET T == {t \in all_tables(src) :
                 ~\E k \in src[t].constraints : k.constraint_type = "FOREIGN KEY"}
        Rec(t) == [table_name |-> t,
                   reason |-> <<"Missing or incorrect foreign key on district_id">>]
    IN  BagOf(T, Rec)

\* UNION ALL of the five checks: the rows inserted into excluded_tables_log
invalid_tables(src) ==
    missing_columns(src) (+) datatype_issues(src) (+) null_issues(src)
        (+) pk_issues(src) (+) fk_issues(src)

-----------------------------------------------------------------------------
(* Step 3: the tables to process *)

\* line 183: table_name IN ('galleries', 'food_markets', 'long_term_listings', 'banks', 'malls')
testing_tables == {galleries, food_markets, long_term_listings, banks, malls}

\* excluded: the contents of excluded_tables_log (a bag of [table_name, reason])
valid_tables(src, excluded) ==
    {t \in DOMAIN src :
        /\ ~ILikeContains(t, pat_districts)
        /\ ~ILikeContains(t, pat_neighborhoods)
        /\ t \notin {x.table_name : x \in BagToSet(excluded)}
        /\ t \in testing_tables}

-----------------------------------------------------------------------------
(* Step 4: unification and nearest-POI enrichment *)

\* The value of column c in the source row r = [id, geometry].  The id and the
\* geometry (EWKT text of a point, <<x>>, or NULL) vary; every other cell is a
\* value that names its column and row.
Cell(c, r) ==
    IF Lower(c) = "id" THEN r.id
    ELSE IF c = "geometry" THEN r.geometry
    ELSE <<c, r.id>>

\* to_jsonb(t): every column of the row, under its own name
to_jsonb(cols, r) == [c \in cols |-> Cell(c, r)]

\* jsonb - key
JsonMinus(j, key) == [c \in DOMAIN j \ {key} |-> j[c]]

\* jsonb ->> key
JsonText(j, key) == IF key \in DOMAIN j THEN <<j[key]>> ELSE NULL

\* ST_GeomFromEWKT of the text of a point (strict: NULL in, NULL out)
ST_GeomFromEWKT(txt) == IF txt = NULL THEN NULL ELSE <<[x |-> txt[1], srid |-> 0]>>

ST_SetSRID(g, srid) == IF g = NULL THEN NULL ELSE <<[x |-> g[1].x, srid |-> srid]>>

\* ST_Distance, and the <-> ordering key, of two points on a line
ST_Distance(g, h) == IF g = NULL \/ h = NULL THEN NULL ELSE <<Abs(g[1].x - h[1].x)>>

PoiId(table, id) == Substring(table, 1, 4) \o <<"-">> \o id

Attributes(cols, r) ==
    JsonMinus(JsonMinus(JsonMinus(JsonMinus(JsonMinus(JsonMinus(JsonMinus(
        to_jsonb(cols, r),
        "id"), "name"), "district_id"), "neighborhood_id"), "latitude"), "longitude"),
        "geometry")

\* The columns the SELECT of lines 195-207 names as t.<column>
selected_columns ==
    {"id", "name", "district_id", "district", "neighborhood_id", "neighborhood",
     "latitude", "longitude", "geometry"}

\* SelectTable with the rows that have no geometry left out
SelectTableWithGeometry(src, table) ==
    {[poi_id |-> PoiId(table, r.id),
      name |-> Cell("name", r),
      layer |-> table,
      district_id |-> Cell("district_id", r),
      district |-> Cell("district", r),
      neighborhood_id |-> Cell("neighborhood_id", r),
      neighborhood |-> Cell("neighborhood", r),
      latitude |-> Cell("latitude", r),
      longitude |-> Cell("longitude", r),
      geometry |-> ST_SetSRID(ST_GeomFromEWKT(r.geometry), 4326),
      attributes |-> Attributes(DOMAIN src[table].columns, r)] :
        r \in {q \in src[table].rows : q.geometry # NULL}}

\* One SELECT of the UNION ALL: the rows of one table, projected
SelectTable(src, table) ==
    {[poi_id |-> PoiId(table, r.id),
      name |-> Cell("name", r),
      layer |-> table,
      district_id |-> Cell("district_id", r),
      district |-> Cell("district", r),
      neighborhood_id |-> Cell("neighborhood_id", r),
      neighborhood |-> Cell("neighborhood", r),
      latitude |-> Cell("latitude", r),
      longitude |-> Cell("longitude", r),
      geometry |-> ST_SetSRID(ST_GeomFromEWKT(r.geometry), 4326),
      attributes |-> Attributes(DOMAIN src[table].columns, r)] : r \in src[table].rows}

all_pois(src, tables) == UNION {SelectTable(src, t) : t \in tables}

unique_layers(pois) == {p.layer : p \in pois} \ {long_term_listings}

\* ORDER BY ap.geometry <-> p.geometry LIMIT 1: the rows that can come first.
\* NULL keys sort last; among equal keys the order is the store's.
FirstByDistance(pois, ap, layer) ==
    LET C == {p \in pois : p.layer = layer}
        K(p) == ST_Distance(ap.geometry, p.geometry)
        D == {p \in C : K(p) # NULL}
    IN  IF D = {} THEN C
        ELSE {p \in D : \A q \in D : K(p)[1] <= K(q)[1]}

nearestinfo(ap, p) ==
    [id |-> p.poi_id,
     name |-> p.name,
     distance |-> ST_Distance(ap.geometry, p.geometry),
     address |-> [street |-> JsonText(p.attributes, "street"),
                  housenumber |-> JsonText(p.attributes, "housenumber")]]

\* The (listing, layer) pairs of the correlated subquery of lines 231-254
NearestPairs(pois) ==
    {<<ap, l>> : ap \in {p \in pois : p.layer = long_term_listings},
                 l \in unique_layers(pois)}

\* Every way the LIMIT 1 subqueries can come out: one first row per pair
NearestChoices(pois) ==
    {f \in [NearestPairs(pois) -> pois] :
        \A x \in NearestPairs(pois) : f[x] \in FirstByDistance(pois, x[1], x[2])}

\* jsonb_object_agg over the layers; NULL when it aggregates no row
nearest_pois(pois, ap, f) ==
    IF ap.layer # long_term_listings \/ unique_layers(pois) = {} THEN NULL
    ELSE [l \in unique_layers(pois) |-> nearestinfo(ap, f[<<ap, l>>])]

pois_with_nearest(pois, f) ==
    {[poi_id |-> ap.poi_id, name |-> ap.name, layer |-> ap.layer,
      district_id |-> ap.district_id, district |-> ap.district,
      neighborhood_id |-> ap.neighborhood_id, neighborhood |-> ap.neighborhood,
      latitude |-> ap.latitude, longitude |-> ap.longitude,
      geometry |-> ap.geometry, attributes |-> ap.attributes,
      nearest_pois |-> nearest_pois(pois, ap, f)] : ap \in pois}

\* PrimaryKeyHolds for a poi_id column without the PRIMARY KEY
NoPrimaryKeyOnPoiId(existing, rows) == TRUE

\* poi_id VARCHAR(50) PRIMARY KEY: the insert of `rows` into `existing` is accepted
PrimaryKeyHolds(existing, rows) ==
    /\ \A p, q \in rows : p.poi_id = q.poi_id => p = q
    /\ \A p \in rows : \A q \in existing : p.poi_id # q.poi_id

\* A SELECT names a column the table does not have under that exact name
UndefinedColumn(src, tables) ==
    \E t \in tables : ~(selected_columns \subseteq DOMAIN src[t].columns)

-----------------------------------------------------------------------------
(* The source tables the model draws from *)

MaxRows == 2

MaxListings == 1

Col(ty, p, s, n) ==
    [data_type |-> ty, numeric_precision |-> p, numeric_scale |-> s, is_nullable |-> n]

Varchar(n) == Col("character varying", NULL, NULL, n)

PrimaryKey(cols) == [constraint_type |-> "PRIMARY KEY", columns |-> cols]

ForeignKey(cols) == [constraint_type |-> "FOREIGN KEY", columns |-> cols]

\* A table that meets the expected schema, with one column of its own
StdColumns ==
    [c \in {"id", "district_id", "name", "latitude", "longitude", "neighborhood",
            "district", "neighborhood_id", "geometry", "street"} |->
        IF c \in {"id", "district_id"} THEN Varchar("NO")
        ELSE IF c \in {"latitude", "longitude"} THEN Col("numeric", <<9>>, <<6>>, "YES")
        ELSE IF c = "geometry" THEN Col("text", NULL, NULL, "YES")
        ELSE Varchar("YES")]

StdConstraints == {PrimaryKey({"id"}), ForeignKey({"district_id"})}

Schema(cols, cons) == [columns |-> cols, constraints |-> cons]

Good == Schema(StdColumns, StdConstraints)

\* latitude declared numeric(10,2)
Precision102 ==
    Schema([StdColumns EXCEPT !["latitude"] = Col("numeric", <<10>>, <<2>>, "YES")],
           StdConstraints)

WrongType ==
    Schema([StdColumns EXCEPT !["longitude"] = Col("double precision", <<53>>, NULL, "YES")],
           StdConstraints)

MissingCols ==
    Schema([c \in DOMAIN StdColumns \ {"name", "geometry"} |-> StdColumns[c]], StdConstraints)

NullableDistrictId ==
    Schema([StdColumns EXCEPT !["district_id"] = Varchar("YES")], StdConstraints)

NoPrimaryKey == Schema(StdColumns, {ForeignKey({"district_id"})})

NoForeignKey == Schema(StdColumns, {PrimaryKey({"id"})})

\* PRIMARY KEY (id, geometry): the id alone need not be unique
CompositeKey ==
    Schema([StdColumns EXCEPT !["geometry"] = Col("text", NULL, NULL, "NO")],
           {PrimaryKey({"id", "geometry"}), ForeignKey({"district_id"})})

\* The id column created as "ID"
UpperCaseId ==
    Schema([c \in (DOMAIN StdColumns \ {"id"}) \cup {"ID"} |->
               IF c = "ID" THEN Varchar("NO") ELSE StdColumns[c]],
           {PrimaryKey({"ID"}), ForeignKey({"district_id"})})

\* An administrative boundary table
Boundary ==
    Schema([c \in {"id", "geometry"} |->
               IF c = "id" THEN Col("integer", <<32>>, <<0>>, "NO")
               ELSE Col("text", NULL, NULL, "YES")],
           {PrimaryKey({"id"})})

Ids == {<<"1">>, <<"2">>}

Geoms == {NULL, <<0>>, <<1>>}

Rows == [id : Ids, geometry : Geoms]

\* The row sets of at most n rows that a table of this schema can hold
RowSets(schema, n) ==
    {R \in SUBSET Rows :
        /\ Cardinality(R) <= n
        /\ \A r \in R : \A c \in DOMAIN schema.columns :
               schema.columns[c].is_nullable = "NO" => Cell(c, r) # NULL
        /\ \A k \in schema.constraints : k.constraint_type = "PRIMARY KEY" =>
               \A r, q \in R : (\A c \in k.columns : Cell(c, r) = Cell(c, q)) => r = q}

Tables(schemas, n) ==
    UNION {{[columns |-> s.columns, constraints |-> s.constraints, rows |-> R] :
               R \in RowSets(s, n)} : s \in schemas}

OneRow == {[id |-> <<"1">>, geometry |-> <<1>>]}

Table(s, R) == [columns |-> s.columns, constraints |-> s.constraints, rows |-> R]

\* Schemas of every kind over fixed rows
SchemaUniverse ==
    {(long_term_listings :> l) @@ (banks :> b) @@ (bike_lanes :> Table(Good, OneRow))
        @@ (Districts :> Table(Boundary, OneRow)) :
        l \in {Table(s, {[id |-> <<"1">>, geometry |-> <<0>>]}) : s \in {Good, NoForeignKey}},
        b \in {Table(s, OneRow) :
                  s \in {Good, Precision102, WrongType, MissingCols, NullableDistrictId,
                         NoPrimaryKey, NoForeignKey, UpperCaseId}}}

\* Rows of every kind under the schemas that pass validation
RowUniverse ==
    {(long_term_listings :> l) @@ (banks :> b) :
        l \in Tables({Good}, MaxListings),
        b \in Tables({Good, CompositeKey}, MaxRows)}

\* Two candidate layers, the first with two POIs at one place
LayerUniverse ==
    {(long_term_listings :> l)
        @@ (banks :> Table(Good, {[id |-> <<"1">>, geometry |-> <<1>>],
                                  [id |-> <<"2">>, geometry |-> <<1>>]}))
        @@ (malls :> Table(Good, {[id |-> <<"1">>, geometry |-> <<0>>]})) :
        l \in Tables({Good}, MaxListings)}

Upstreams == SchemaUniverse \cup RowUniverse \cup LayerUniverse

-----------------------------------------------------------------------------
(* The store and the run *)

VARIABLES
    upstream,       \* the tables the acquisition step can load, by name
    source,         \* schema berlin_source_data: the tables present, by name
    db,             \* schema public as committed: relation name -> contents
    tx,             \* schema public as the open transaction sees it
    pc,             \* the step the run is at ("idle": no run)
    new_tables,     \* the script's new_tables
    outcome,        \* how the last run ended
    merged_from     \* NULL, or <<the source tables the last committed run read>>

vars == <<upstream, source, db, tx, pc, new_tables, outcome, merged_from>>

\* DROP TABLE IF EXISTS name CASCADE (the table's indexes go with it)
DropTable(d, name, indexes) == [k \in DOMAIN d \ ({name} \cup indexes) |-> d[k]]

\* CREATE TABLE IF NOT EXISTS name
CreateTable(d, name) == IF name \in DOMAIN d THEN d ELSE (name :> {}) @@ d

Init ==
    /\ upstream \in Upstreams
    /\ source = <<>>
    /\ db = <<>>
    /\ tx = <<>>
    /\ pc = "idle"
    /\ new_tables = {}
    /\ outcome = "none"
    /\ merged_from = NULL

\* The acquisition step loads a table into berlin_source_data
LoadTable(t) ==
    /\ pc = "idle"
    /\ t \in DOMAIN upstream \ DOMAIN source
    /\ source' = (t :> upstream[t]) @@ source
    /\ UNCHANGED <<upstream, db, tx, pc, new_tables, outcome, merged_from>>

\* A table is dropped from berlin_source_data
DropSourceTable(t) ==
    /\ pc = "idle"
    /\ t \in DOMAIN source
    /\ source' = [u \in DOMAIN source \ {t} |-> source[u]]
    /\ UNCHANGED <<upstream, db, tx, pc, new_tables, outcome, merged_from>>

\* Rollback for a connection in autocommit: what the run wrote stays
RollbackKeepsWrites(error) ==
    /\ db' = tx
    /\ pc' = "idle"
    /\ new_tables' = {}
    /\ outcome' = error
    /\ UNCHANGED <<upstream, source, tx, merged_from>>

\* An exception leaves the with block: the transaction is rolled back
Rollback(error) ==
    /\ tx' = db
    /\ pc' = "idle"
    /\ new_tables' = {}
    /\ outcome' = error
    /\ UNCHANGED <<upstream, source, db, merged_from>>

\* with engine.begin() as conn: a transaction opens on the committed state
Begin ==
    /\ pc = "idle"
    /\ tx' = db
    /\ pc' = "step1"
    /\ UNCHANGED <<upstream, source, db, new_tables, outcome, merged_from>>

\* Step 1: excluded_tables_log is dropped, created and filled with the findings
Step1_Validation ==
    /\ pc = "step1"
    /\ tx' = [CreateTable(DropTable(tx, "excluded_tables_log", {}), "excluded_tables_log")
                 EXCEPT !["excluded_tables_log"] = invalid_tables(source)]
    /\ pc' = "step2"
    /\ UNCHANGED <<upstream, source, db, new_tables, outcome, merged_from>>

\* Step 2: unified_pois and processed_tables_log are dropped and created
Step2_Recreate ==
    /\ pc = "step2"
    /\ tx' = CreateTable(CreateTable(
                 DropTable(DropTable(tx, "unified_pois", {"idx_poi_geom"}),
                           "processed_tables_log", {}),
                 "unified_pois"), "processed_tables_log")
    /\ pc' = "step3"
    /\ UNCHANGED <<upstream, source, db, new_tables, outcome, merged_from>>

\* Step 3: new_tables
Step3_NewTables ==
    /\ pc = "step3"
    /\ new_tables' = valid_tables(source, tx["excluded_tables_log"])
    /\ pc' = "step4"
    /\ UNCHANGED <<upstream, source, db, tx, outcome, merged_from>>

\* Step 4, new_tables empty: insert_sql was never assigned (line 266 is outside the if)
Step4_NameError ==
    /\ pc = "step4"
    /\ new_tables = {}
    /\ Rollback("NameError")

\* Step 4: a SELECT of the union names a column the table lacks
Step4_UndefinedColumn ==
    /\ pc = "step4"
    /\ new_tables # {}
    /\ UndefinedColumn(source, new_tables)
    /\ Rollback("UndefinedColumn")

\* Step 4: the INSERT violates the primary key of unified_pois
Step4_UniqueViolation ==
    /\ pc = "step4"
    /\ new_tables # {}
    /\ ~UndefinedColumn(source, new_tables)
    /\ ~PrimaryKeyHolds(tx["unified_pois"], all_pois(source, new_tables))
    /\ Rollback("UniqueViolation")

\* Step 4: the INSERT ... SELECT of lines 211-266
Step4_Insert ==
    /\ pc = "step4"
    /\ new_tables # {}
    /\ ~UndefinedColumn(source, new_tables)
    /\ LET pois == all_pois(source, new_tables)
       IN  /\ PrimaryKeyHolds(tx["unified_pois"], pois)
           /\ \E f \in NearestChoices(pois) :
                  tx' = [tx EXCEPT !["unified_pois"] = @ \cup pois_with_nearest(pois, f)]
    /\ pc' = "step4log"
    /\ UNCHANGED <<upstream, source, db, new_tables, outcome, merged_from>>

\* Step 4, lines 268-272: one ledger row per table, ON CONFLICT DO NOTHING
Step4_Log ==
    /\ pc = "step4log"
    /\ tx' = [tx EXCEPT !["processed_tables_log"] = @ \cup new_tables]
    /\ pc' = "step5"
    /\ UNCHANGED <<upstream, source, db, new_tables, outcome, merged_from>>

\* Step 5: CREATE INDEX IF NOT EXISTS idx_poi_geom
Step5_Index ==
    /\ pc = "step5"
    /\ tx' = IF "idx_poi_geom" \in DOMAIN tx THEN tx
             ELSE ("idx_poi_geom" :> "gist (geometry)") @@ tx
    /\ pc' = "commit"
    /\ UNCHANGED <<upstream, source, db, new_tables, outcome, merged_from>>

\* The with block ends: the transaction commits
Commit ==
    /\ pc = "commit"
    /\ db' = tx
    /\ pc' = "idle"
    /\ new_tables' = {}
    /\ outcome' = "committed"
    /\ merged_from' = <<source>>
    /\ UNCHANGED <<upstream, source, tx>>

\* The store fails a statement of the open transaction
StoreFailure ==
    /\ pc \in {"step1", "step2", "step3", "step4", "step4log", "step5", "commit"}
    /\ Rollback("OperationalError")

Next ==
    \/ \E t \in DOMAIN upstream : LoadTable(t)
    \/ \E t \in DOMAIN source : DropSourceTable(t)
    \/ Begin
    \/ Step1_Validation
    \/ Step2_Recreate
    \/ Step3_NewTables
    \/ Step4_NameError
    \/ Step4_UndefinedColumn
    \/ Step4_UniqueViolation
    \/ Step4_Insert
    \/ Step4_Log
    \/ Step5_Index
    \/ Commit
    \/ StoreFailure

Spec == Init /\ [][Next]_vars

-----------------------------------------------------------------------------
(* What the claims speak of *)

Pois(d) == IF "unified_pois" \in DOMAIN d THEN d["unified_pois"] ELSE {}

Ledger(d) == IF "processed_tables_log" \in DOMAIN d THEN d["processed_tables_log"] ELSE {}

Excluded(d) == IF "excluded_tables_log" \in DOMAIN d THEN d["excluded_tables_log"] ELSE EmptyBag

\* The tables with a row in the bag of findings
Flagged(findings) == {x.table_name : x \in BagToSet(findings)}

\* The candidate tables of src without a finding that the run is scoped to
PassedAndRequested(src) == (all_tables(src) \ Flagged(invalid_tables(src))) \cap testing_tables

\* A canonical record without its nearest_pois
Projected(p) == [k \in DOMAIN p \ {"nearest_pois"} |-> p[k]]

\* The step that commits a run
CommitStep == pc = "commit" /\ pc' = "idle" /\ outcome' = "committed"

-----------------------------------------------------------------------------
\* Every table of src that passed validation and is in scope has, in d, one
\* record per row and no other record of its layer
OneRecordPerRow(src, d) ==
    \A t \in PassedAndRequested(src) :
        /\ \A r \in src[t].rows :
               Cardinality({p \in Pois(d) : p.poi_id = SubSeq(t, 1, 4) \o <<"-">> \o r.id}) = 1
        /\ \A r \in src[t].rows : \E p \in Pois(d) :
               /\ p.layer = t
               /\ p.poi_id = SubSeq(t, 1, 4) \o <<"-">> \o r.id
               /\ (p.geometry = NULL) = (r.geometry = NULL)
               /\ p.geometry # NULL => p.geometry[1].x = r.geometry[1]
        /\ Cardinality({p \in Pois(d) : p.layer = t}) = Cardinality(src[t].rows)

-----------------------------------------------------------------------------
\* C2: no two committed canonical records share a poi_id, and every poi_id is the
\* first 4 characters of the record's layer, '-', and a source row id.
C2_PoiIdUnique ==
    /\ \A p, q \in Pois(db) : p.poi_id = q.poi_id => p = q
    /\ \A p \in Pois(db) : \E i \in Ids : p.poi_id = SubSeq(p.layer, 1, 4) \o <<"-">> \o i

\* Two layers were merged whose rows carry the same source id
C2_Witness ==
    \E p, q \in Pois(db) :
        /\ p.layer # q.layer
        /\ SubSeq(p.poi_id, 6, Len(p.poi_id)) = SubSeq(q.poi_id, 6, Len(q.poi_id))

-----------------------------------------------------------------------------
\* C3 (as claimed): every canonical record and every ledger entry of the committed
\* state is still there after every later step.
C3_AppendOnly ==
    [][/\ {p.poi_id : p \in Pois(db)} \subseteq {p.poi_id : p \in Pois(db')}
       /\ Ledger(db) \subseteq Ledger(db')]_vars

-----------------------------------------------------------------------------
\* C4: a run that ends in an error leaves the committed exclusion log, canonical
\* table and ledger as they were; the committed state changes only when a run
\* commits, and then to everything the run wrote.
C4_RunIsAtomic ==
    [][/\ (pc' = "idle" /\ outcome' # "committed") => db' = db
       /\ db' # db => CommitStep /\ db' = tx
       /\ CommitStep =>
              /\ Excluded(db') = invalid_tables(source)
              /\ Ledger(db') = new_tables
              /\ {p.layer : p \in Pois(db')} \subseteq new_tables]_vars

\* A run failed on the primary key after an earlier run had committed records
C4_Witness ==
    /\ pc = "idle"
    /\ outcome = "UniqueViolation"
    /\ Pois(db) # {}

-----------------------------------------------------------------------------
\* C5 (as claimed): the tables a run merges are those without a finding, minus
\* those in the ledger when the run started, within the run's scope.
C5_MergedSet ==
    pc \in {"step4", "step4log", "step5", "commit"} =>
        new_tables = ((all_tables(source) \ Flagged(tx["excluded_tables_log"]))
                          \ Ledger(db)) \cap testing_tables

-----------------------------------------------------------------------------
\* The latitude/longitude columns of t that are numeric but not numeric(9,6)
PrecisionMismatch(src, t) ==
    {c \in DOMAIN src[t].columns \cap {"latitude", "longitude"} :
        /\ src[t].columns[c].data_type = "numeric"
        /\ <<src[t].columns[c].numeric_precision, src[t].columns[c].numeric_scale>>
               # << <<9>>, <<6>> >>}

\* src with those columns of t declared numeric(9,6)
PutRight(src, t) ==
    [src EXCEPT ![t].columns =
        [c \in DOMAIN @ |-> IF c \in PrecisionMismatch(src, t)
                            THEN Col("numeric", <<9>>, <<6>>, @[c].is_nullable)
                            ELSE @[c]]]

\* The number of datatype findings for t
DatatypeFindings(findings, t) ==
    BagCardinality([x \in {y \in BagToSet(findings) :
                              y.table_name = t /\ y.reason[1] = "Expected data type "}
                        |-> findings[x]])

\* C6 (as claimed): a table whose latitude or longitude is numeric with another
\* precision/scale than (9,6), and which has no finding once that is put right,
\* gets exactly one datatype finding and no canonical record.
C6_PrecisionMismatchExcluded ==
    \A t \in all_tables(source) :
        (PrecisionMismatch(source, t) # {} /\ t \notin Flagged(invalid_tables(PutRight(source, t))))
        => /\ pc = "step2" => DatatypeFindings(tx["excluded_tables_log"], t) = 1
           /\ pc = "commit" => \A p \in Pois(tx) : p.layer # t

-----------------------------------------------------------------------------
\* Every listing of d names, for every other layer of d, a member at the least distance
NearestIsMinimum(d) ==
    \A Q \in {p \in Pois(d) : p.layer = long_term_listings} :
        \A L \in {p.layer : p \in Pois(d)} \ {long_term_listings} :
            /\ L \in DOMAIN Q.nearest_pois
            /\ \E m \in {p \in Pois(d) : p.layer = L} :
                   /\ Q.nearest_pois[L].id = m.poi_id
                   /\ Q.geometry # NULL /\ m.geometry # NULL
                   /\ Q.nearest_pois[L].distance = <<Abs(Q.geometry[1].x - m.geometry[1].x)>>
                   /\ \A n \in {p \in Pois(d) : p.layer = L} :
                          n.geometry # NULL =>
                              Abs(Q.geometry[1].x - m.geometry[1].x)
                                  <= Abs(Q.geometry[1].x - n.geometry[1].x)

\* C7 (as claimed): for every committed listing Q and every other layer L with a
\* committed member, nearest_pois[L] names a member of L at the least distance
\* from Q and gives that distance; and a re-run over the same source tables
\* names the same member.
C7_NearestDeterministicMinimum ==
    [][/\ NearestIsMinimum(db')
       /\ (CommitStep /\ merged_from = <<source>>) => Pois(db') = Pois(db)]_vars

-----------------------------------------------------------------------------
\* The source columns with a canonical field of their own
promoted_columns ==
    {"id", "name", "district_id", "district", "neighborhood_id", "neighborhood",
     "latitude", "longitude", "geometry"}

\* C8 (as claimed): the keys of a canonical record's attributes are the columns of
\* its source table other than id, name, district_id, district, neighborhood_id,
\* neighborhood, latitude, longitude and geometry.
C8_AttributesAreTheRest ==
    merged_from # NULL =>
        \A p \in Pois(db) :
            DOMAIN p.attributes = DOMAIN merged_from[1][p.layer].columns \ promoted_columns

-----------------------------------------------------------------------------
\* C9 (as claimed): a row with NULL geometry is unified; no nearest_pois entry
\* names a record with NULL geometry; a listing with NULL geometry has no
\* nearest_pois entry; a layer whose members all have NULL geometry has no entry.
C9_NullGeometryLeftOut ==
    /\ merged_from # NULL =>
           \A t \in PassedAndRequested(merged_from[1]) : \A r \in merged_from[1][t].rows :
               r.geometry = NULL =>
                   \E p \in Pois(db) : p.layer = t /\ p.geometry = NULL
                                       /\ p.poi_id = SubSeq(t, 1, 4) \o <<"-">> \o r.id
    /\ \A Q \in Pois(db) :
           /\ \A L \in DOMAIN Q.nearest_pois :
                  \A m \in Pois(db) : m.poi_id = Q.nearest_pois[L].id => m.geometry # NULL
           /\ Q.geometry = NULL => Q.nearest_pois = NULL
           /\ \A L \in {p.layer : p \in Pois(db)} :
                  (\A m \in Pois(db) : m.layer = L => m.geometry = NULL)
                      => L \notin DOMAIN Q.nearest_pois

-----------------------------------------------------------------------------
\* C10 (as claimed): a run with no table to merge goes on from the insert step with
\* nothing written (on to the ledger loop and the index), unless the store fails.
C10_EmptyRunGoesOn ==
    [][(pc = "step4" /\ new_tables = {}) =>
           \/ pc' = "step4log" /\ tx' = tx
           \/ outcome' = "OperationalError"]_vars

====
